---------------------------- MODULE Spec2Model ----------------------------
(***************************************************************************)
(* NZ Property Tax & Mortgage Optimisation Tool (src/streamlit_app.py).    *)
(*                                                                         *)
(* The script is one top-to-bottom pass: the widgets yield the inputs, a   *)
(* loop evaluates every rental property, a second loop projects the home   *)
(* loan balance year by year, and the summary and the chart series are     *)
(* built.  Streamlit runs the pass again whenever a widget changes.        *)
(*                                                                         *)
(* Numbers.  The widgets yield whole dollars, whole years, percentages in  *)
(* hundredths of a percent (basis points, bp) and a whole-percent tax      *)
(* rate.  Every currency amount the script derives is a Python float; the  *)
(* model keeps it as a fixed-point integer in units of 1/Unit dollar.  A   *)
(* product with a fractional rate is rounded (towards zero) to that unit,  *)
(* as the float product is rounded to its last place: rounding is          *)
(* monotone and symmetric in both.  The values that numpy's division can   *)
(* make non-finite (cash_freed and all that is computed from it) are       *)
(* extended values: finite, +inf, -inf or nan.                             *)
(***************************************************************************)
EXTENDS Integers, Sequences, FiniteSets, TLC

\* ------------------------------------------------------------------ bounds

\* num_rentals ranges over 1..10 in the form; the model explores 1..MaxProps.
MaxProps == 2

\* projection_years ranges over 1..10 in the form; the model explores 1..MaxYears.
MaxYears == 5

\* --------------------------------------------------------- program constants

WeeksPerYear == 52

MonthsPerYear == 12

MinRentals == 1

MinYears == 1

\* Widget defaults (the values of the first pass).
DefaultHomeLoan == 975000

DefaultRateBp == 499

DefaultTerm == 30

DefaultRentWeekly == 760

DefaultInsurance == 3500

DefaultRates == 4300

DefaultMaintenance == 2000

DefaultMgmtFeeBp == 520

DefaultDepreciation == 1500

DefaultTaxPct == 33

DefaultYears == 5

\* ------------------------------------------------------ fixed-point numbers

\* Currency unit: 1/Unit dollar.
Unit == 10 ^ 3

\* A percentage widget's value v (in bp) divided by 100 is the fraction v / BpDen.
BpDen == 100 * 100

\* The whole-percent tax widget's value divided by 100 is the fraction v / PctDen.
PctDen == 10 * 10

\* (1 + rate) ** nper is kept with PowScale units per 1.
PowScale == 10 ^ 8

Dollars(n) == n * Unit

Abs(x) == IF x < 0 THEN -x ELSE x

Sgn(x) == IF x < 0 THEN -1 ELSE IF x = 0 THEN 0 ELSE 1

Min(a, b) == IF a <= b THEN a ELSE b

\* The largest integer TLC computes with (2^31 - 1).
MaxInt == (2 ^ 30 - 1) + 2 ^ 30

\* Whether m * r + (m - 1) * am stays a machine integer for every r < d.
ChunkFits(m, am, d) ==
    /\ am <= MaxInt \div (m - 1)
    /\ d - 1 <= (MaxInt - (m - 1) * am) \div m

\* How many values of b's low digits one step of MulDivQR may take: 8, 4 or 2.
Chunk(am, d) ==
    IF ChunkFits(8, am, d) THEN 8 ELSE IF ChunkFits(4, am, d) THEN 4 ELSE 2

\* <<q, r>> with a * b = q * d + r and 0 <= r < d, for a, b >= 0 and 0 < d <= 2^30,
\* without forming a * b (which can exceed a machine integer): b is taken digit
\* by digit in base m, a * (m * b1 + c) = m * (a * b1) + c * a.
RECURSIVE MulDivQR(_, _, _, _)
MulDivQR(a, b, d, m) ==
    IF b = 0 THEN <<0, 0>>
    ELSE LET h == MulDivQR(a, b \div m, d, m)
             c == b % m
             t == m * h[2] + c * (a % d)
         IN  <<m * h[1] + c * (a \div d) + (t \div d), t % d>>

\* a * b / d rounded towards zero, any signs of a and b, d > 0.
MulDiv(a, b, d) ==
    IF a = 0 \/ b = 0 THEN 0
    ELSE Sgn(a) * Sgn(b) * MulDivQR(Abs(a), Abs(b), d, Chunk(Abs(a) % d, d))[1]

\* a / d rounded towards zero, d > 0.
TruncDiv(a, d) == Sgn(a) * (Abs(a) \div d)

\* ---------------------------------------------------------- extended values

Fin(n) == [k |-> "fin", v |-> n]

PosInf == [k |-> "inf", v |-> 1]

NegInf == [k |-> "inf", v |-> -1]

NaN == [k |-> "nan", v |-> 0]

Zero == Fin(0)

IsFin(x) == x.k = "fin"

FNeg(x) == IF x.k = "nan" THEN NaN ELSE [k |-> x.k, v |-> -x.v]

\* IEEE addition: inf + (-inf) is nan, inf absorbs a finite value.
FAdd(x, y) ==
    IF x.k = "nan" \/ y.k = "nan" THEN NaN
    ELSE IF x.k = "fin" /\ y.k = "fin" THEN Fin(x.v + y.v)
    ELSE IF x.k = "fin" THEN y
    ELSE IF y.k = "fin" THEN x
    ELSE IF x.v = y.v THEN x ELSE NaN

FSub(x, y) == FAdd(x, FNeg(y))

\* x * (num / den), den > 0: inf * 0 is nan, inf keeps or flips its sign.
FMulRate(x, num, den) ==
    IF x.k = "nan" THEN NaN
    ELSE IF x.k = "fin" THEN Fin(MulDiv(x.v, num, den))
    ELSE IF num = 0 THEN NaN
    ELSE [k |-> "inf", v |-> x.v * Sgn(num)]

FMulInt(x, n) == FMulRate(x, n, 1)

\* numpy's x / 0.0 for a finite numerator x: inf with x's sign, nan for 0 / 0.
DivZero(x) == IF x > 0 THEN PosInf ELSE IF x < 0 THEN NegInf ELSE NaN

RECURSIVE FSum(_)
FSum(s) == IF s = <<>> THEN Zero ELSE FAdd(FSum(SubSeq(s, 1, Len(s) - 1)), s[Len(s)])


\* ------------------------------------------------- numpy_financial.pmt

\* 1 + rate in PowScale units, rate = num / den.
OnePlusRate(num, den) == PowScale + MulDiv(PowScale, num, den)

\* base ** n in PowScale units, n >= 0 (0 ** 0 and x ** 0 are 1).
RECURSIVE PowFix(_, _)
PowFix(base, n) ==
    IF n = 0 THEN PowScale
    ELSE LET h  == PowFix(base, n \div 2)
             sq == MulDiv(h, h, PowScale)
         IN  IF n % 2 = 0 THEN sq ELSE MulDiv(sq, base, PowScale)

\* npf.pmt(rate, nper, pv) with fv = 0 and when = 'end', rate = num / den >= 0,
\* nper >= 0:
\*     temp = (1 + rate) ** nper
\*     fact = nper                 if rate == 0
\*            (temp - 1) / rate    otherwise
\*     pmt  = -(pv * temp) / fact
\* The division is numpy's: a zero fact yields inf or nan, never an exception.
Pmt(num, den, nper, pv) ==
    IF num = 0
    THEN IF nper = 0 THEN DivZero(-pv) ELSE Fin(TruncDiv(-pv, nper))
    ELSE LET temp == PowFix(OnePlusRate(num, den), nper)
         IN  IF temp = PowScale
             THEN DivZero(-pv)
             ELSE Fin(MulDiv(MulDiv(-pv, num, den), temp, temp - PowScale))

\* ------------------------------------------------- per-property evaluator

IO == "Interest-Only"

PI == "Principal & Interest"

AnnualRent(prop) == Dollars(prop.rent_weekly * WeeksPerYear)

Interest(prop) == MulDiv(Dollars(prop.loan), prop.rate, BpDen)

MgmtCost(prop) == MulDiv(AnnualRent(prop), prop.mgmt_fee, BpDen)

Expenses(prop) ==
    Interest(prop) + Dollars(prop.insurance) + Dollars(prop.rates)
        + Dollars(prop.maintenance) + MgmtCost(prop) + Dollars(prop.depreciation)

\* Mutant: the deduction is not capped at the rental income.
TaxSavingsUncapped(exp, rent, tax) == MulDiv(exp, tax, PctDen)

\* Mutant: max() where the code has min().
TaxSavingsMax(exp, rent, tax) == MulDiv(IF exp >= rent THEN exp ELSE rent, tax, PctDen)

TaxSavings(exp, rent, tax) == MulDiv(Min(exp, rent), tax, PctDen)

\* Mutant: the term in years is passed as the number of monthly periods.
MonthlyPniYearsAsPeriods(prop) ==
    Pmt(prop.rate, BpDen * MonthsPerYear, prop.term, -Dollars(prop.loan))

MonthlyPni(prop) ==
    Pmt(prop.rate, BpDen * MonthsPerYear, prop.term * MonthsPerYear, -Dollars(prop.loan))

AnnualPni(monthly) == FMulInt(monthly, MonthsPerYear)

IsInterestOnly(prop) == prop.type = IO

\* Mutant: the repayment type is not consulted.
CashFreedAnyType(prop, annual) == FSub(annual, Fin(Interest(prop)))

\* cash_freed of a property whose annual P&I payment would be `annual`.
CashFreedOf(prop, annual) ==
    IF IsInterestOnly(prop) THEN FSub(annual, Fin(Interest(prop))) ELSE Zero

CashFreed(prop) == CashFreedOf(prop, AnnualPni(MonthlyPni(prop)))

\* ------------------------------------------------------ portfolio projector

\* Mutant: a year's interest accrues on the balance before the reduction.
NextBalanceAccruing(bal, freed) ==
    FSub(FMulRate(bal, BpDen + DefaultRateBp, BpDen), freed)

NextBalance(bal, freed) == FSub(bal, freed)

InterestSaved(bal, rate) == FMulRate(bal, rate, BpDen)

\* Mutant: the year's interest is taken on the balance before the reduction.
YearStepInterestFirst(bal, freed, rate) ==
    [balance |-> FSub(bal, freed), interest_saved |-> FMulRate(bal, rate, BpDen)]

\* One pass of the loop body's first two statements, in the code's order.
YearStep(bal, freed, rate) ==
    LET b == NextBalance(bal, freed)
    IN  [balance |-> b, interest_saved |-> InterestSaved(b, rate)]

\* Mutant: the running total is overwritten, not accumulated.
NextCumulativeOverwrite(cum, saved) == saved

NextCumulative(cum, saved) == FAdd(cum, saved)

\* Mutant: the year index starts at 0.
PrincipalPaidFromZero(freed, y) == FMulInt(freed, y - 1)

PrincipalPaidAt(freed, y) == FMulInt(freed, y)

\* Mutant: the loop stops once the loan is paid off.
LoopStopsWhenPaidOff(y, years, bal) == y < years /\ (IsFin(bal) => bal.v > 0)

\* range(1, projection_years + 1) has a further year after `y` years are done.
LoopContinues(y, years, bal) == y < years

YearList(n) == [y \in 1..n |-> y]

\* ------------------------------------------------------------ widget values

\* Values a widget is set to in the explored runs (each widget accepts any number:
\* only num_rentals and projection_years carry a minimum and a maximum).  The
\* widgets not listed (the home loan's rate, a property's loan, insurance, council
\* rates, maintenance, management fee and depreciation) stay at their defaults;
\* the home loan's term, insurance and council rates enter no calculation.
HomeLoanChoices == {DefaultHomeLoan, 5000}

RateChoices == {DefaultRateBp, 0}

TermChoices == {DefaultTerm, 0}

TypeChoices == {IO, PI}

RentChoices == {DefaultRentWeekly, 100}

TaxChoices == {DefaultTaxPct, 150, -10}

\* A property's widgets as first rendered (their value= defaults; the select box
\* shows its first option).
DefaultProperty ==
    [loan |-> 385000, rate |-> DefaultRateBp, term |-> DefaultTerm, type |-> IO,
     rent_weekly |-> DefaultRentWeekly, insurance |-> DefaultInsurance,
     rates |-> DefaultRates, maintenance |-> DefaultMaintenance,
     mgmt_fee |-> DefaultMgmtFeeBp, depreciation |-> DefaultDepreciation]

\* ------------------------------------------------------------------- state

VARIABLES
    home_loan,                  \* dollars
    home_rate,                  \* bp
    rental_properties,          \* sequence of property records
    tax_rate,                   \* whole percent
    projection_years,
    pc,                         \* "calc", "project", "done"
    idx,                        \* properties evaluated so far in this pass
    annual_rent, interest, mgmt_cost, expenses, tax_savings,
    monthly_pni, annual_pni, cash_freed,
    total_rent, total_expenses, total_tax_savings, total_cash_freed,
    balance, year, interest_saved, cumulative_saved,
    annual_savings, principal_paid, cumulative_interest_saved,
    shown_extra_paid, shown_cumulative_saved, chart_data

inputs == <<home_loan, home_rate, rental_properties, tax_rate, projection_years>>

locals == <<annual_rent, interest, mgmt_cost, expenses, tax_savings,
            monthly_pni, annual_pni, cash_freed>>

totals == <<total_rent, total_expenses, total_tax_savings, total_cash_freed>>

projection == <<balance, year, interest_saved, cumulative_saved,
                annual_savings, principal_paid, cumulative_interest_saved>>

outputs == <<shown_extra_paid, shown_cumulative_saved, chart_data>>

vars == <<inputs, pc, idx, locals, totals, projection, outputs>>

NoChart == [Year |-> <<>>, Paid |-> <<>>, Saved |-> <<>>]

\* The first pass: every widget at its default.  The names the pass has not yet
\* bound (the loops' locals, the projection, the outputs) hold placeholders.
Init ==
    /\ home_loan = DefaultHomeLoan
    /\ home_rate = DefaultRateBp
    /\ rental_properties = <<DefaultProperty>>
    /\ tax_rate = DefaultTaxPct
    /\ projection_years = DefaultYears
    /\ pc = "calc"
    /\ idx = 0
    /\ annual_rent = 0 /\ interest = 0 /\ mgmt_cost = 0 /\ expenses = 0
    /\ tax_savings = 0
    /\ monthly_pni = Zero /\ annual_pni = Zero /\ cash_freed = Zero
    /\ total_rent = 0 /\ total_expenses = 0 /\ total_tax_savings = 0
    /\ total_cash_freed = Zero
    /\ balance = Zero /\ year = 0 /\ interest_saved = Zero /\ cumulative_saved = Zero
    /\ annual_savings = <<>> /\ principal_paid = <<>>
    /\ cumulative_interest_saved = <<>>
    /\ shown_extra_paid = Zero /\ shown_cumulative_saved = Zero
    /\ chart_data = NoChart

\* A new pass of the script up to the totals' initialisation: nothing of the
\* previous pass survives but the widgets' values.
ScriptStart ==
    /\ pc' = "calc"
    /\ idx' = 0
    /\ annual_rent' = 0 /\ interest' = 0 /\ mgmt_cost' = 0 /\ expenses' = 0
    /\ tax_savings' = 0
    /\ monthly_pni' = Zero /\ annual_pni' = Zero /\ cash_freed' = Zero
    /\ total_rent' = 0 /\ total_expenses' = 0 /\ total_tax_savings' = 0
    /\ total_cash_freed' = Zero
    /\ balance' = Zero /\ year' = 0 /\ interest_saved' = Zero
    /\ cumulative_saved' = Zero
    /\ annual_savings' = <<>> /\ principal_paid' = <<>>
    /\ cumulative_interest_saved' = <<>>
    /\ shown_extra_paid' = Zero /\ shown_cumulative_saved' = Zero
    /\ chart_data' = NoChart

\* ----------------------------------------------------------------- actions

\* One iteration of `for prop in rental_properties`.
EvalProperty ==
    /\ pc = "calc"
    /\ idx < Len(rental_properties)
    /\ LET prop == rental_properties[idx + 1]
           rent == AnnualRent(prop)
           exp  == Expenses(prop)
           tsav == TaxSavings(exp, rent, tax_rate)
           monthly == MonthlyPni(prop)
           annual == AnnualPni(monthly)
           freed == CashFreedOf(prop, annual)
       IN  /\ annual_rent' = rent
           /\ interest' = Interest(prop)
           /\ mgmt_cost' = MgmtCost(prop)
           /\ expenses' = exp
           /\ tax_savings' = tsav
           /\ monthly_pni' = IF IsInterestOnly(prop) THEN monthly ELSE monthly_pni
           /\ annual_pni' = IF IsInterestOnly(prop) THEN annual ELSE annual_pni
           /\ cash_freed' = freed
           /\ total_rent' = total_rent + rent
           /\ total_expenses' = total_expenses + exp
           /\ total_tax_savings' = total_tax_savings + tsav
           /\ total_cash_freed' = FAdd(total_cash_freed, freed)
    /\ idx' = idx + 1
    /\ UNCHANGED <<inputs, pc, projection, outputs>>

\* The property loop is exhausted: the projection's initialisation.
BeginProjection ==
    /\ pc = "calc"
    /\ idx = Len(rental_properties)
    /\ pc' = "project"
    /\ balance' = Fin(Dollars(home_loan))
    /\ annual_savings' = <<>>
    /\ principal_paid' = <<>>
    /\ cumulative_interest_saved' = <<>>
    /\ cumulative_saved' = Zero
    /\ year' = 0
    /\ UNCHANGED <<inputs, idx, locals, totals, interest_saved, outputs>>

\* One iteration of `for year in range(1, projection_years + 1)`.
ProjectYear ==
    /\ pc = "project"
    /\ LoopContinues(year, projection_years, balance)
    /\ LET step == YearStep(balance, total_cash_freed, home_rate)
           cum  == NextCumulative(cumulative_saved, step.interest_saved)
       IN  /\ year' = year + 1
           /\ balance' = step.balance
           /\ interest_saved' = step.interest_saved
           /\ cumulative_saved' = cum
           /\ annual_savings' = Append(annual_savings, step.interest_saved)
           /\ principal_paid' =
                  Append(principal_paid, PrincipalPaidAt(total_cash_freed, year + 1))
           /\ cumulative_interest_saved' = Append(cumulative_interest_saved, cum)
    /\ UNCHANGED <<inputs, pc, idx, locals, totals, outputs>>

\* The projection loop is exhausted: the summary's figures and the chart's frame.
Summary ==
    /\ pc = "project"
    /\ ~LoopContinues(year, projection_years, balance)
    /\ pc' = "done"
    /\ shown_extra_paid' = FMulInt(total_cash_freed, projection_years)
    /\ shown_cumulative_saved' = cumulative_saved
    /\ chart_data' = [Year  |-> YearList(projection_years),
                      Paid  |-> principal_paid,
                      Saved |-> cumulative_interest_saved]
    /\ UNCHANGED <<inputs, idx, locals, totals, projection>>

\* The user changes one widget; Streamlit runs the script again from the top.
ChangeHomeLoan ==
    /\ pc = "done"
    /\ \E v \in HomeLoanChoices \ {home_loan} : home_loan' = v
    /\ UNCHANGED <<home_rate, rental_properties, tax_rate, projection_years>>
    /\ ScriptStart

ChangeNumRentals ==
    /\ pc = "done"
    /\ \E n \in (MinRentals..MaxProps) \ {Len(rental_properties)} :
           rental_properties' =
               IF n < Len(rental_properties)
               THEN SubSeq(rental_properties, 1, n)
               ELSE rental_properties
                        \o [j \in 1..(n - Len(rental_properties)) |-> DefaultProperty]
    /\ UNCHANGED <<home_loan, home_rate, tax_rate, projection_years>>
    /\ ScriptStart

ChangeProperty ==
    /\ pc = "done"
    /\ \E i \in 1..Len(rental_properties) :
           LET prop == rental_properties[i]
           IN  \/ \E v \in TermChoices \ {prop.term} :
                      rental_properties' = [rental_properties EXCEPT ![i].term = v]
               \/ \E v \in RateChoices \ {prop.rate} :
                      rental_properties' = [rental_properties EXCEPT ![i].rate = v]
               \/ \E v \in TypeChoices \ {prop.type} :
                      rental_properties' = [rental_properties EXCEPT ![i].type = v]
               \/ \E v \in RentChoices \ {prop.rent_weekly} :
                      rental_properties' =
                          [rental_properties EXCEPT ![i].rent_weekly = v]
    /\ UNCHANGED <<home_loan, home_rate, tax_rate, projection_years>>
    /\ ScriptStart

ChangeTaxRate ==
    /\ pc = "done"
    /\ \E v \in TaxChoices \ {tax_rate} : tax_rate' = v
    /\ UNCHANGED <<home_loan, home_rate, rental_properties, projection_years>>
    /\ ScriptStart

ChangeYears ==
    /\ pc = "done"
    /\ \E v \in (MinYears..MaxYears) \ {projection_years} : projection_years' = v
    /\ UNCHANGED <<home_loan, home_rate, rental_properties, tax_rate>>
    /\ ScriptStart

Next ==
    \/ EvalProperty
    \/ BeginProjection
    \/ ProjectYear
    \/ Summary
    \/ ChangeHomeLoan
    \/ ChangeNumRentals
    \/ ChangeProperty
    \/ ChangeTaxRate
    \/ ChangeYears

Spec == Init /\ [][Next]_vars

\* ------------------------------------------------------------------ claims

\* The property the pass evaluated last (idx >= 1).
LastProp == rental_properties[idx]

Near(x, target, tol) == Abs(x - target) <= tol

\* C1: evaluating a property whose repayment type is not "Interest-Only" sets
\* cash_freed to exactly 0 and leaves total_cash_freed as it was, whatever the
\* property's loan, rate, term, rent and expenses.
C1_PrincipalAndInterestFreesNothing ==
    [][(pc = "calc" /\ idx < Len(rental_properties)
            /\ rental_properties[idx + 1].type # IO)
        => (cash_freed' = Zero /\ total_cash_freed' = total_cash_freed)]_vars

\* C1 witness: a P&I property evaluated after an interest-only one that freed cash.
C1_Witness ==
    /\ idx = 2
    /\ rental_properties[1].type = IO
    /\ rental_properties[2].type = PI
    /\ cash_freed = Zero
    /\ IsFin(total_cash_freed) /\ total_cash_freed.v > 0

\* C2 as stated: for every input the form accepts, tax_savings is at most
\* tax_rate * annual_rent.
C2_Original == idx >= 1 => tax_savings <= MulDiv(annual_rent, tax_rate, PctDen)

\* C2 amended: when the marginal tax rate is not negative, tax_savings is at most
\* tax_rate * annual_rent.
C2_CapHoldsForNonNegativeRate ==
    (idx >= 1 /\ tax_rate >= 0) => tax_savings <= MulDiv(annual_rent, tax_rate, PctDen)

\* C2 witness: the cap binds (expenses exceed the rent) under a positive tax rate.
C2_Witness ==
    /\ idx >= 1
    /\ tax_rate > 0
    /\ annual_rent > 0
    /\ expenses > annual_rent
    /\ tax_savings = MulDiv(annual_rent, tax_rate, PctDen)

\* C3 as stated: for every input the form accepts, tax_savings never exceeds the
\* property's annual_rent.
C3_Original == idx >= 1 => tax_savings <= annual_rent

\* C3 amended: when the marginal tax rate lies in 0..100 percent and the annual
\* rent is not negative, tax_savings never exceeds annual_rent.
C3_SavingsWithinRent ==
    (idx >= 1 /\ tax_rate >= 0 /\ tax_rate <= PctDen /\ annual_rent >= 0)
        => tax_savings <= annual_rent

\* C3 witness: a property evaluated under a rate within 0..100 percent whose
\* expenses exceed its rent, so that only the cap keeps the savings within the rent.
C3_Witness ==
    /\ idx >= 1
    /\ tax_rate > 0 /\ tax_rate <= PctDen
    /\ annual_rent > 0
    /\ MulDiv(expenses, tax_rate, PctDen) > annual_rent
    /\ tax_savings <= annual_rent

\* C4: after every year y the recorded cumulative_interest_saved[y] is the sum of
\* the interest saved in years 1..y, and the summary's cumulative figure is the sum
\* of all of annual_savings.
C4_CumulativeIsSum ==
    /\ Len(cumulative_interest_saved) = Len(annual_savings)
    /\ \A y \in 1..Len(cumulative_interest_saved) :
           cumulative_interest_saved[y] = FSum(SubSeq(annual_savings, 1, y))
    /\ pc = "done" => shown_cumulative_saved = FSum(annual_savings)

\* C4 witness: a finished projection of three or more years of differing, finite
\* interest.
C4_Witness ==
    /\ pc = "done"
    /\ Len(annual_savings) >= 3
    /\ IsFin(shown_cumulative_saved) /\ shown_cumulative_saved.v > 0
    /\ annual_savings[1] # annual_savings[2]

\* C5: the recorded principal_paid of year y is total_cash_freed * y, and its last
\* entry is the summary's total_cash_freed * projection_years.
C5_PrincipalPaidLinear ==
    /\ \A y \in 1..Len(principal_paid) :
           principal_paid[y] = FMulInt(total_cash_freed, y)
    /\ pc = "done" =>
           /\ Len(principal_paid) = projection_years
           /\ principal_paid[projection_years] = shown_extra_paid

\* C5 witness: a finished projection of two or more years with cash freed.
C5_Witness ==
    /\ pc = "done"
    /\ projection_years >= 2
    /\ IsFin(total_cash_freed) /\ total_cash_freed.v > 0
    /\ principal_paid[2].v = 2 * principal_paid[1].v

\* C6: when total_cash_freed is 0 the balance is the home loan's starting value
\* after every year, and every year's interest_saved is home_loan * home_rate.
C6_NoCashFreedKeepsBalance ==
    (pc \in {"project", "done"} /\ total_cash_freed = Zero) =>
        /\ balance = Fin(Dollars(home_loan))
        /\ \A y \in 1..Len(annual_savings) :
               annual_savings[y] = FMulRate(Fin(Dollars(home_loan)), home_rate, BpDen)

\* C6 witness: a finished projection of two or more years with no cash freed.
C6_Witness ==
    /\ pc = "done"
    /\ total_cash_freed = Zero
    /\ year >= 2
    /\ annual_savings[2].v > 0

\* C7: the projection loop runs for every year 1..projection_years in order and
\* records one entry per year in each series: every step of the loop either
\* records the next year or, all years recorded, moves on to the summary; the
\* balance is reduced every year, also past zero.
C7_ExactlyYearsEntries ==
    /\ [](/\ Len(principal_paid) = Len(annual_savings)
          /\ Len(cumulative_interest_saved) = Len(annual_savings)
          /\ pc = "project" =>
                 /\ Len(annual_savings) = year
                 /\ year <= projection_years
          /\ pc = "done" =>
                 /\ Len(annual_savings) = projection_years
                 /\ chart_data.Year = YearList(projection_years)
                 /\ Len(chart_data.Paid) = projection_years
                 /\ Len(chart_data.Saved) = projection_years
                 /\ IsFin(total_cash_freed) =>
                        balance = Fin(Dollars(home_loan)
                                          - projection_years * total_cash_freed.v))
    /\ [][pc = "project" =>
              \/ /\ pc' = "project"
                 /\ year' = year + 1
                 /\ Len(annual_savings') = Len(annual_savings) + 1
              \/ /\ pc' = "done"
                 /\ year = projection_years]_vars

\* C7 witness: a finished projection of two or more years whose balance went below
\* zero.
C7_Witness ==
    /\ pc = "done"
    /\ projection_years >= 2
    /\ IsFin(balance) /\ balance.v < 0
    /\ Len(annual_savings) = projection_years

\* The scenario of C8: every widget at its default.
IsScenario ==
    /\ home_loan = DefaultHomeLoan
    /\ home_rate = DefaultRateBp
    /\ rental_properties = <<DefaultProperty>>
    /\ tax_rate = DefaultTaxPct
    /\ projection_years = DefaultYears

\* The figures of the scenario that C8 and its amendment agree on.
ScenarioExpenses ==
    idx >= 1 =>
        /\ annual_rent = 39520 * Unit
        /\ 10 * interest = 192115 * Unit
        /\ 100 * mgmt_cost = 205504 * Unit
        /\ Near(expenses, 32566540, 5)
        /\ Near(tax_savings, 10746960, 5)

\* C8 as stated: in the scenario the monthly annuity payment is about 2061.3,
\* cash_freed about 5524.1, the year-1 balance 969475.9 and the year-1
\* interest_saved about 48360.6 (each to 0.05).
C8_Original ==
    IsScenario =>
        /\ ScenarioExpenses
        /\ idx >= 1 =>
               /\ Near(monthly_pni.v, 2061300, 50)
               /\ Near(cash_freed.v, 5524100, 50)
        /\ (pc = "project" /\ year = 1) => Near(balance.v, 969475900, 50)
        /\ Len(annual_savings) >= 1 => Near(annual_savings[1].v, 48360600, 50)

\* C8 amended: in the scenario annual_rent = 39520, interest = 19211.5,
\* mgmt_cost = 2055.04, total_expenses is about 32566.54, tax_savings about
\* 10746.96, the monthly annuity payment about 2064.41, cash_freed about 5561.43,
\* the year-1 balance about 969438.57 and the year-1 interest_saved about
\* 48374.98 (each to 0.05).
C8_ScenarioFigures ==
    IsScenario =>
        /\ ScenarioExpenses
        /\ idx >= 1 =>
               /\ IsFin(monthly_pni) /\ Near(monthly_pni.v, 2064410, 50)
               /\ IsFin(annual_pni) /\ Near(annual_pni.v, 24772930, 50)
               /\ IsFin(cash_freed) /\ Near(cash_freed.v, 5561430, 50)
        /\ (pc = "project" /\ year = 1) => Near(balance.v, 969438570, 50)
        /\ Len(annual_savings) >= 1 => Near(annual_savings[1].v, 48374980, 50)

\* C8 witness: the scenario's pass has finished all five years.
C8_Witness ==
    /\ IsScenario
    /\ pc = "done"
    /\ Len(annual_savings) = DefaultYears
    /\ Near(total_cash_freed.v, 5561430, 50)

\* C9: an interest-only property with term = 0 or rate = 0 is given cash_freed = 0
\* (the script has no path that rejects an input), and what flows into
\* total_cash_freed and the projection is finite.
C9_DegenerateInputHandled ==
    (idx >= 1 /\ IsInterestOnly(LastProp) /\ (LastProp.term = 0 \/ LastProp.rate = 0))
        => (cash_freed = Zero /\ IsFin(total_cash_freed))

\* C10: year y's interest_saved is (home_loan - y * total_cash_freed) * home_rate,
\* the balance already reduced in year 1, and the projection leaves the home
\* loan's starting principal as it was.
C10_InterestOnReducedBalance ==
    /\ [](\A y \in 1..Len(annual_savings) :
              annual_savings[y] =
                  FMulRate(FSub(Fin(Dollars(home_loan)), FMulInt(total_cash_freed, y)),
                           home_rate, BpDen))
    /\ [][pc = "project" => home_loan' = home_loan]_vars

\* C10 witness: a finished projection with cash freed, whose first year's interest
\* is that of the reduced balance and not that of the starting balance.
C10_Witness ==
    /\ pc = "done"
    /\ IsFin(total_cash_freed) /\ total_cash_freed.v > 0
    /\ annual_savings[1] =
           FMulRate(Fin(Dollars(home_loan) - total_cash_freed.v), home_rate, BpDen)
    /\ annual_savings[1] # FMulRate(Fin(Dollars(home_loan)), home_rate, BpDen)

=============================================================================
